---- MODULE Spec2Model ----
(***************************************************************************)
(* Model of circuitcode.ino: an Arduino sketch that drives four select     *)
(* lines of an analog multiplexer, samples a reference input and a         *)
(* per-channel input for channels 0-3 and 8-11, stores the readings in two *)
(* 8-slot buffers and prints them on the serial port.                      *)
(*                                                                         *)
(* One action per statement of setup() and loop(); pc holds the source     *)
(* line of the statement about to run ("21i", "21c", "21n" are the init,   *)
(* condition and increment parts of the for statement of line 21).         *)
(***************************************************************************)
EXTENDS Integers, Sequences, FiniteSets, TLC

(* ---------------------------------------------------------------- bounds *)
\* loop() invocations counted before the counter saturates
MaxIter == 2
\* saturation of the time measured since the last select-line write (ms)
TimeCap == 600

(* ------------------------------------------------------------- constants *)
C0 == 13
C1 == 12
C2 == 11
C3 == 10
\* select line b (0..3) is driven by SelPin[b+1]
SelPin == <<C0, C1, C2, C3>>
SelPins == {C0, C1, C2, C3}

\* analog input An
A(n) == <<"A", n>>
A0 == A(0)
\* variant: the table lists A0..A7
analogPinsLow == [k \in 0..7 |-> A(k)]
analogPinsInit == [k \in 0..7 |-> A(8 + k)]
BufferInit == [k \in 0..7 |-> 0]
BaudRate == 9600
IdleMs == 500

(* ------------------------------------------------------ Arduino core ops *)
\* bitRead(value, bit) is ((value >> bit) & 1)
bitRead(value, bit) == (value \div (2 ^ bit)) % 2

\* variant: a write of LOW is dropped, the pin is only ever raised
digitalWriteSetOnly(levels, modes, pin, val) ==
    IF modes[pin] = "OUTPUT" /\ val # 0
    THEN [levels EXCEPT ![pin] = 1]
    ELSE levels

\* digitalWrite drives the pin only when it is configured as an output;
\* any non-zero value is HIGH
digitalWrite(levels, modes, pin, val) ==
    IF modes[pin] = "OUTPUT"
    THEN [levels EXCEPT ![pin] = IF val = 0 THEN 0 ELSE 1]
    ELSE levels

\* delay(ms) lets at least ms milliseconds pass
delay(t, ms) == IF t + ms > TimeCap THEN TimeCap ELSE t + ms

\* Serial.print(int) writes the decimal representation
Digits == <<"0", "1", "2", "3", "4", "5", "6", "7", "8", "9">>
RECURSIVE DecNat(_)
DecNat(n) == IF n < 10 THEN Digits[n + 1]
             ELSE DecNat(n \div 10) \o Digits[(n % 10) + 1]
Dec(n) == IF n < 0 THEN "-" \o DecNat(0 - n) ELSE DecNat(n)

\* assignment to an array element; an index outside the array stores nothing
\* in the array
Store(buf, idx, v) == IF idx \in DOMAIN buf THEN [buf EXCEPT ![idx] = v] ELSE buf

(* ------------------------------------------------------------ the two    *)
(* scanning for loops (n = 1: lines 21-30, n = 2: lines 34-43)             *)
ScanPc == << [init |-> "21i", cond |-> "21c", w |-> <<"22", "23", "24", "25">>,
              delay |-> "27", ref |-> "28", chan |-> "29", incr |-> "21n"],
             [init |-> "34i", cond |-> "34c", w |-> <<"35", "36", "37", "38">>,
              delay |-> "40", ref |-> "41", chan |-> "42", incr |-> "34n"] >>
\* variant: the second loop starts at 4
LoopInitLow(n) == IF n = 1 THEN 0 ELSE 4
LoopInit(n) == IF n = 1 THEN 0 ELSE 8
\* variant: the first loop runs one channel too far
LoopLimitLong(n) == IF n = 1 THEN 5 ELSE 12
\* variant: the second loop stops one channel early
LoopLimitEarly(n) == IF n = 1 THEN 4 ELSE 11
\* variant: the first loop stops one channel early
LoopLimitShort(n) == IF n = 1 THEN 3 ELSE 12
LoopLimit(n) == IF n = 1 THEN 4 ELSE 12
\* variant: the second loop subtracts 8
StorageIndexOff(n, x) == IF n = 1 THEN x ELSE x - 8
\* index of the left-hand side valuesA0[..]
StorageIndex(n, x) == IF n = 1 THEN x ELSE x - 4
\* variant: the second loop subtracts 3
AnalogIndexOff(n, x) == IF n = 1 THEN x ELSE x - 3
\* index of the left-hand side valuesAnalog[..]
AnalogIndex(n, x) == IF n = 1 THEN x ELSE x - 4
\* variant: the second loop reads the pins of the first
PinIndexOff(n, x) == IF n = 1 THEN x ELSE x - 8
\* index used in analogPins[..]
PinIndex(n, x) == IF n = 1 THEN x ELSE x - 4
\* variant: the second loop waits 5 ms
SettleMsShort(n) == IF n = 1 THEN 50 ELSE 5
SettleMs(n) == IF n = 1 THEN 50 ELSE 50
\* variant: the bits go to the lines in reverse order
SelectBitReversed(x, b) == bitRead(x, 3 - b)
\* the value written to select line b for loop variable x
SelectBit(x, b) == bitRead(x, b)

(* the two printing for loops (m = 1: lines 47-53, m = 2: lines 55-61)     *)
RepPc == << [hdr |-> "47", init |-> "48i", cond |-> "48c", p1 |-> "49",
             p2 |-> "50", p3 |-> "51", p4 |-> "52", incr |-> "48n"],
            [hdr |-> "55", init |-> "56i", cond |-> "56c", p1 |-> "57",
             p2 |-> "58", p3 |-> "59", p4 |-> "60", incr |-> "56n"] >>
RepHeader(m) == IF m = 1 THEN "Sensors 0-7 Readings:" ELSE "Sensors 8-15 Readings:"
\* variant: both loops print the label of the first
RepLabelSame(m) == "A0 Value["
RepLabel(m) == IF m = 1 THEN "A0 Value[" ELSE "Analog Value["
RepEq(m) == "] = "
\* variant: the second loop prints 7 values
RepLimitShort(m) == IF m = 1 THEN 8 ELSE 7
RepLimit(m) == IF m = 1 THEN 8 ELSE 8

(* ----------------------------------------------------------- environment *)
\* the voltage sources behind the multiplexer: "mock" returns 100 + address
\* on the reference pin and 200 + address on every other pin, "pinwise" a
\* value that identifies pin and address, "noisy" the same plus a level
\* that may change whenever time passes
Samplers == {"mock", "pinwise", "noisy"}
NoiseLevels == {0, 1}
Sample(s, pin, addr, d) ==
    IF s = "mock" THEN (IF pin = A0 THEN 100 + addr ELSE 200 + addr)
    ELSE pin[2] * 16 + addr + 256 * d

VARIABLES
    pc,            \* statement about to run
    i,             \* the loop variable of the for statement being run
    mode,          \* pinMode of the four select pins
    pinLevel,      \* level driven on the four select pins
    baud,          \* 0 until Serial.begin
    valuesAnalog,  \* int valuesAnalog[8]
    valuesA0,      \* int valuesA0[8]
    analogPins,    \* int analogPins[8]
    cur,           \* serial sink: line being written
    out,           \* serial sink: complete lines of this loop() invocation
    elapsed,       \* ms that certainly passed since the last select-line write
    sampler,       \* which signal source the inputs are connected to
    drift,         \* noise level of the "noisy" source
    iter,          \* loop() invocations started (saturates at MaxIter)
    events,        \* select writes, delays and reads since i last changed
    selLog,        \* addresses on the lines after each select step of this scan
    cyc,           \* the buffer writes of this loop() invocation
    snapA0,        \* valuesA0 at the end of the first scan (steady sources)
    snapAnalog     \* valuesAnalog at the end of the first scan (steady sources)

vars == <<pc, i, mode, pinLevel, baud, valuesAnalog, valuesA0, analogPins, cur,
          out, elapsed, sampler, drift, iter, events, selLog, cyc, snapA0,
          snapAnalog>>

\* the address the four select lines present to the multiplexer
Address(levels) ==
    levels[C0] + 2 * levels[C1] + 4 * levels[C2] + 8 * levels[C3]

Deterministic == sampler # "noisy"

buffers == <<valuesA0, valuesAnalog>>
sink == <<cur, out>>
env == <<sampler, analogPins>>
snaps == <<snapA0, snapAnalog>>

Init ==
    /\ pc = "12"
    /\ i = 0
    /\ mode = [p \in SelPins |-> "INPUT"]
    /\ pinLevel = [p \in SelPins |-> 0]
    /\ baud = 0
    /\ valuesAnalog = BufferInit
    /\ valuesA0 = BufferInit
    /\ analogPins = analogPinsInit
    /\ cur = ""
    /\ out = <<>>
    /\ elapsed = 0
    /\ sampler \in Samplers
    /\ drift = 0
    /\ iter = 0
    /\ events = <<>>
    /\ selLog = <<>>
    /\ cyc = <<>>
    /\ snapA0 = BufferInit
    /\ snapAnalog = BufferInit

(* ------------------------------------------------------------- setup()   *)
SetupPc == <<"12", "13", "14", "15", "16">>

\* pinMode(Cb, OUTPUT), lines 12-15
SetupPinMode(b) ==
    /\ pc = SetupPc[b + 1]
    /\ mode' = [mode EXCEPT ![SelPin[b + 1]] = "OUTPUT"]
    /\ pc' = SetupPc[b + 2]
    /\ UNCHANGED <<i, pinLevel, baud, buffers, sink, env, elapsed, drift, iter,
                   events, selLog, cyc, snaps>>

\* Serial.begin(9600), line 16; setup() returns and main calls loop()
SetupSerialBegin ==
    /\ pc = "16"
    /\ baud' = BaudRate
    /\ pc' = "19"
    /\ UNCHANGED <<i, mode, pinLevel, buffers, sink, env, elapsed, drift, iter,
                   events, selLog, cyc, snaps>>

(* -------------------------------------------------------------- loop()   *)
\* loop() is entered, line 19; the observation windows start afresh
LoopEntry ==
    /\ pc = "19"
    /\ pc' = ScanPc[1].init
    /\ iter' = IF iter < MaxIter THEN iter + 1 ELSE iter
    /\ out' = <<>>
    /\ events' = <<>>
    /\ selLog' = <<>>
    /\ cyc' = <<>>
    /\ UNCHANGED <<i, mode, pinLevel, baud, buffers, cur, env, elapsed, drift,
                   snaps>>

\* for (int i = ...; lines 21, 34
ForInit(n) ==
    /\ pc = ScanPc[n].init
    /\ i' = LoopInit(n)
    /\ events' = <<>>
    /\ pc' = ScanPc[n].cond
    /\ UNCHANGED <<mode, pinLevel, baud, buffers, sink, env, elapsed, drift,
                   iter, selLog, cyc, snaps>>

\* ...; i < ...; lines 21, 34.  Leaving the second loop ends the scan.
ForCond(n) ==
    /\ pc = ScanPc[n].cond
    /\ IF i < LoopLimit(n)
       THEN /\ pc' = ScanPc[n].w[1]
            /\ UNCHANGED snaps
       ELSE IF n = 1
       THEN /\ pc' = ScanPc[2].init
            /\ UNCHANGED snaps
       ELSE /\ pc' = RepPc[1].hdr
            /\ IF Deterministic /\ iter = 1
               THEN snapA0' = valuesA0 /\ snapAnalog' = valuesAnalog
               ELSE UNCHANGED snaps
    /\ UNCHANGED <<i, mode, pinLevel, baud, buffers, sink, env, elapsed, drift,
                   iter, events, selLog, cyc>>

\* digitalWrite(Cb, bitRead(i, b)), lines 22-25, 35-38
SelectWrite(n, b) ==
    /\ pc = ScanPc[n].w[b + 1]
    /\ pinLevel' = digitalWrite(pinLevel, mode, SelPin[b + 1], SelectBit(i, b))
    /\ elapsed' = 0
    /\ events' = Append(events, <<"w", SelPin[b + 1]>>)
    /\ selLog' = IF b = 3 THEN Append(selLog, Address(pinLevel')) ELSE selLog
    /\ pc' = IF b = 3 THEN ScanPc[n].delay ELSE ScanPc[n].w[b + 2]
    /\ UNCHANGED <<i, mode, baud, buffers, sink, env, drift, iter, cyc, snaps>>

\* delay(50), lines 27, 40
Settle(n) ==
    /\ pc = ScanPc[n].delay
    /\ elapsed' = delay(elapsed, SettleMs(n))
    /\ drift' \in IF Deterministic THEN {drift} ELSE NoiseLevels
    /\ events' = Append(events, <<"d", SettleMs(n)>>)
    /\ pc' = ScanPc[n].ref
    /\ UNCHANGED <<i, mode, pinLevel, baud, buffers, sink, env, iter, selLog,
                   cyc, snaps>>

\* what one analogRead-and-store leaves in the log of buffer writes
Entry(name, k, pin, v) ==
    [buf |-> name, k |-> k, pin |-> pin, addr |-> Address(pinLevel), val |-> v,
     el |-> elapsed, at |-> i]

\* valuesA0[..] = analogRead(A0), lines 28, 41
SampleRef(n) ==
    /\ pc = ScanPc[n].ref
    /\ LET v == Sample(sampler, A0, Address(pinLevel), drift)
           k == StorageIndex(n, i)
       IN /\ valuesA0' = Store(valuesA0, k, v)
          /\ cyc' = Append(cyc, Entry("valuesA0", k, A0, v))
    /\ events' = Append(events, <<"r", A0>>)
    /\ pc' = ScanPc[n].chan
    /\ UNCHANGED <<i, mode, pinLevel, baud, valuesAnalog, sink, env, elapsed,
                   drift, iter, selLog, snaps>>

\* valuesAnalog[..] = analogRead(analogPins[..]), lines 29, 42
SampleChan(n) ==
    /\ pc = ScanPc[n].chan
    /\ LET pin == analogPins[PinIndex(n, i)]
           v == Sample(sampler, pin, Address(pinLevel), drift)
           k == AnalogIndex(n, i)
       IN /\ valuesAnalog' = Store(valuesAnalog, k, v)
          /\ cyc' = Append(cyc, Entry("valuesAnalog", k, pin, v))
          /\ events' = Append(events, <<"r", pin>>)
    /\ pc' = ScanPc[n].incr
    /\ UNCHANGED <<i, mode, pinLevel, baud, valuesA0, sink, env, elapsed,
                   drift, iter, selLog, snaps>>

\* ...; i++), lines 21, 34
ForIncr(n) ==
    /\ pc = ScanPc[n].incr
    /\ i' = i + 1
    /\ events' = <<>>
    /\ pc' = ScanPc[n].cond
    /\ UNCHANGED <<mode, pinLevel, baud, buffers, sink, env, elapsed, drift,
                   iter, selLog, cyc, snaps>>

(* the report *)
print(s) == cur' = cur \o s /\ out' = out
println(s) == cur' = "" /\ out' = Append(out, cur \o s)
\* variant: both loops print valuesA0
RepBufferSame(m) == valuesA0
RepBuffer(m) == IF m = 1 THEN valuesA0 ELSE valuesAnalog

\* Serial.println("Sensors ... Readings:"), lines 47, 55
PrintHeader(m) ==
    /\ pc = RepPc[m].hdr
    /\ println(RepHeader(m))
    /\ pc' = RepPc[m].init
    /\ UNCHANGED <<i, mode, pinLevel, baud, buffers, env, elapsed, drift, iter,
                   events, selLog, cyc, snaps>>

\* for (int i = 0; lines 48, 56
RepInit(m) ==
    /\ pc = RepPc[m].init
    /\ i' = 0
    /\ pc' = RepPc[m].cond
    /\ UNCHANGED <<mode, pinLevel, baud, buffers, sink, env, elapsed, drift,
                   iter, events, selLog, cyc, snaps>>

\* ...; i < 8; lines 48, 56
RepCond(m) ==
    /\ pc = RepPc[m].cond
    /\ pc' = IF i < RepLimit(m) THEN RepPc[m].p1
             ELSE IF m = 1 THEN RepPc[2].hdr ELSE "62"
    /\ UNCHANGED <<i, mode, pinLevel, baud, buffers, sink, env, elapsed, drift,
                   iter, events, selLog, cyc, snaps>>

\* Serial.print("A0 Value[") / Serial.print("Analog Value["), lines 49, 57
PrintLabel(m) ==
    /\ pc = RepPc[m].p1
    /\ print(RepLabel(m))
    /\ pc' = RepPc[m].p2
    /\ UNCHANGED <<i, mode, pinLevel, baud, buffers, env, elapsed, drift, iter,
                   events, selLog, cyc, snaps>>

\* Serial.print(i), lines 50, 58
PrintIndex(m) ==
    /\ pc = RepPc[m].p2
    /\ print(Dec(i))
    /\ pc' = RepPc[m].p3
    /\ UNCHANGED <<i, mode, pinLevel, baud, buffers, env, elapsed, drift, iter,
                   events, selLog, cyc, snaps>>

\* Serial.print("] = "), lines 51, 59
PrintEq(m) ==
    /\ pc = RepPc[m].p3
    /\ print(RepEq(m))
    /\ pc' = RepPc[m].p4
    /\ UNCHANGED <<i, mode, pinLevel, baud, buffers, env, elapsed, drift, iter,
                   events, selLog, cyc, snaps>>

\* Serial.println(valuesA0[i]) / Serial.println(valuesAnalog[i]), lines 52, 60
PrintValue(m) ==
    /\ pc = RepPc[m].p4
    /\ println(Dec(RepBuffer(m)[i]))
    /\ pc' = RepPc[m].incr
    /\ UNCHANGED <<i, mode, pinLevel, baud, buffers, env, elapsed, drift, iter,
                   events, selLog, cyc, snaps>>

\* ...; i++), lines 48, 56
RepIncr(m) ==
    /\ pc = RepPc[m].incr
    /\ i' = i + 1
    /\ pc' = RepPc[m].cond
    /\ UNCHANGED <<mode, pinLevel, baud, buffers, sink, env, elapsed, drift,
                   iter, events, selLog, cyc, snaps>>

\* delay(500), line 62; loop() returns and main calls it again
IdlePause ==
    /\ pc = "62"
    /\ elapsed' = delay(elapsed, IdleMs)
    /\ drift' \in IF Deterministic THEN {drift} ELSE NoiseLevels
    /\ events' = Append(events, <<"d", IdleMs>>)
    /\ pc' = "19"
    /\ UNCHANGED <<i, mode, pinLevel, baud, buffers, sink, env, iter, selLog,
                   cyc, snaps>>

Next ==
    \/ \E b \in 0..3 : SetupPinMode(b)
    \/ SetupSerialBegin
    \/ LoopEntry
    \/ \E n \in 1..2 : ForInit(n)
    \/ \E n \in 1..2 : ForCond(n)
    \/ \E n \in 1..2 : \E b \in 0..3 : SelectWrite(n, b)
    \/ \E n \in 1..2 : Settle(n)
    \/ \E n \in 1..2 : SampleRef(n)
    \/ \E n \in 1..2 : SampleChan(n)
    \/ \E n \in 1..2 : ForIncr(n)
    \/ \E m \in 1..2 : PrintHeader(m)
    \/ \E m \in 1..2 : RepInit(m)
    \/ \E m \in 1..2 : RepCond(m)
    \/ \E m \in 1..2 : PrintLabel(m)
    \/ \E m \in 1..2 : PrintIndex(m)
    \/ \E m \in 1..2 : PrintEq(m)
    \/ \E m \in 1..2 : PrintValue(m)
    \/ \E m \in 1..2 : RepIncr(m)
    \/ IdlePause

Spec == Init /\ [][Next]_vars

\* every delay, sample and sink write returns: the single task keeps running
FairSpec == Spec /\ WF_vars(Next)

TypeOK ==
    /\ i \in 0..12
    /\ pinLevel \in [SelPins -> {0, 1}]
    /\ valuesA0 \in [0..7 -> 0..1023]
    /\ valuesAnalog \in [0..7 -> 0..1023]
    /\ elapsed \in 0..TimeCap
    /\ iter \in 0..MaxIter

(* ------------------------------------------------------------ vocabulary *)
Channels == {0, 1, 2, 3, 8, 9, 10, 11}
ScanOrder == <<0, 1, 2, 3, 8, 9, 10, 11>>
\* the logical channel that maps to storage index k
ChanOf(k) == IF k <= 3 THEN k ELSE k + 4
SettleMin == 50

SelectPcs == {"22", "23", "24", "25", "35", "36", "37", "38"}
SettlePcs == {"27", "40"}
SamplePcs == {"28", "29", "41", "42"}
StepDonePcs == {"21n", "34n"}
ScanBodyPcs == SelectPcs \cup SettlePcs \cup SamplePcs \cup StepDonePcs
ReportPcs == {"47", "48i", "48c", "49", "50", "51", "52", "48n",
              "55", "56i", "56c", "57", "58", "59", "60", "56n"}
\* the scan of this loop() invocation is over
AfterScanPcs == ReportPcs \cup {"62"}

IsPrefix(s, t) == Len(s) <= Len(t) /\ \A j \in 1..Len(s) : s[j] = t[j]
Writes(name, k) == {j \in 1..Len(cyc) : cyc[j].buf = name /\ cyc[j].k = k}
SelectWrites(ev) == {j \in 1..Len(ev) : ev[j][1] = "w"}

(* ---------------------------------------------------------------- C1 --- *)
\* event j of one channel's step is what the source order prescribes
StepEventOK(ev, j) ==
    CASE j \in 1..4 -> ev[j][1] = "w" /\ ev[j][2] = SelPin[j]
      [] j = 5 -> ev[j][1] = "d" /\ ev[j][2] >= SettleMin
      [] j = 6 -> ev[j][1] = "r" /\ ev[j][2] = A0
      [] j = 7 -> ev[j][1] = "r" /\ ev[j][2] # A0
      [] OTHER -> FALSE

\* C1: every analog sample is taken at least 50 ms after the most recent
\* write to a select line, and the events of each channel's step are, in
\* order, the four select-line writes, the settle delay, the reference
\* sample and the per-channel sample, with nothing in between.
C1_SettleBeforeSample ==
    /\ \A j \in 1..Len(cyc) : cyc[j].el >= SettleMin
    /\ pc \in ScanBodyPcs => \A j \in 1..Len(events) : StepEventOK(events, j)
    /\ pc \in SamplePcs => elapsed >= SettleMin
    /\ pc \in StepDonePcs => Len(events) = 7

C1_Witness ==
    /\ pc = "34n" /\ i = 11 /\ iter = 2
    /\ Len(events) = 7 /\ Len(cyc) = 16 /\ cyc[16].el = 50

(* ---------------------------------------------------------------- C2 --- *)
\* C2: when the four writes of the select step for channel c are done, line 0
\* (pin C0) holds bit 0 of c, line 1 (C1) bit 1, line 2 (C2) bit 2 and line 3
\* (C3) bit 3, whatever the lines held before; c is one of 0-3, 8-11.
C2_SelectDecomposition ==
    pc \in SettlePcs =>
        /\ i \in Channels
        /\ pinLevel[C0] = i % 2
        /\ pinLevel[C1] = (i \div 2) % 2
        /\ pinLevel[C2] = (i \div 4) % 2
        /\ pinLevel[C3] = (i \div 8) % 2
        /\ Address(pinLevel) = i

\* the select step for channel 0 of the second scan, entered with address 11
\* left on the lines
C2_Witness ==
    /\ pc = "27" /\ i = 0 /\ iter = 2
    /\ selLog = <<0>>
    /\ pinLevel = [p \in SelPins |-> 0]

(* ---------------------------------------------------------------- C3 --- *)
\* C3: whenever a sample is taken and stored at storage index k, the select
\* lines carry the address of the channel that maps to k (k for 0..3, k + 4
\* for 4..7), all four lines having been written for that channel.
C3_AddressMatchesSample ==
    /\ \A j \in 1..Len(cyc) :
          /\ cyc[j].k \in 0..7
          /\ cyc[j].addr = ChanOf(cyc[j].k)
    /\ pc \in SamplePcs =>
          /\ Cardinality(SelectWrites(events)) = 4
          /\ Address(pinLevel) = i

C3_Witness ==
    /\ pc = "42" /\ i = 9 /\ Address(pinLevel) = 9
    /\ Len(cyc) = 11 /\ cyc[11].k = 5 /\ cyc[11].addr = 9

(* ---------------------------------------------------------------- C4 --- *)
\* C4: in every scan the channels are selected in the order 0,1,2,3,8,9,10,11;
\* channels 0-3 store at indices 0-3 and channels 8-11 at indices 4-7; no
\* channel of 4..7 or 12..15 is the target of a select step.
C4_ScanOrder ==
    /\ IsPrefix(selLog, ScanOrder)
    /\ pc \in AfterScanPcs => selLog = ScanOrder
    /\ pc \in SelectPcs \cup SettlePcs => i \in Channels
    /\ \A j \in 1..Len(cyc) :
          /\ cyc[j].at \in Channels
          /\ cyc[j].at \in 0..3 => cyc[j].k = cyc[j].at
          /\ cyc[j].at \in 8..11 => cyc[j].k = cyc[j].at - 4

C4_Witness ==
    /\ pc = "47" /\ iter = 2 /\ selLog = ScanOrder
    /\ cyc[16].at = 11 /\ cyc[16].k = 7

(* ---------------------------------------------------------------- C5 --- *)
\* C5: every write to valuesA0 and valuesAnalog is at an index in 0..7, no
\* slot is written twice in one scan, at the end of the scan each of the 8
\* slots of each buffer has been written exactly once, and the buffers keep
\* their 8 slots.
C5_EachSlotOnce ==
    /\ \A j \in 1..Len(cyc) : cyc[j].k \in 0..7
    /\ \A k \in 0..7 :
          /\ Cardinality(Writes("valuesA0", k)) <= 1
          /\ Cardinality(Writes("valuesAnalog", k)) <= 1
    /\ pc \in AfterScanPcs =>
          /\ Len(cyc) = 16
          /\ \A k \in 0..7 :
                /\ Cardinality(Writes("valuesA0", k)) = 1
                /\ Cardinality(Writes("valuesAnalog", k)) = 1
    /\ DOMAIN valuesA0 = 0..7
    /\ DOMAIN valuesAnalog = 0..7

C5_Witness ==
    /\ pc = "47" /\ iter = 2 /\ Len(cyc) = 16
    /\ \A k \in 0..7 : Cardinality(Writes("valuesA0", k)) = 1

(* ---------------------------------------------------------------- C6 --- *)
\* C6: with sampling that returns 100 + c on the reference input and
\* 200 + c on the channel input while channel c is selected, the buffers
\* after a scan are [100,101,102,103,108,109,110,111] and
\* [200,201,202,203,208,209,210,211]; with any source, slot k holds after a
\* scan the value sampled while the channel mapped to k was selected.
C6_EndToEnd ==
    pc \in AfterScanPcs =>
        /\ sampler = "mock" =>
              /\ valuesA0 = [k \in 0..7 |->
                    <<100, 101, 102, 103, 108, 109, 110, 111>>[k + 1]]
              /\ valuesAnalog = [k \in 0..7 |->
                    <<200, 201, 202, 203, 208, 209, 210, 211>>[k + 1]]
        /\ \A k \in 0..7 :
              /\ \E j \in 1..Len(cyc) :
                    /\ cyc[j].buf = "valuesA0" /\ cyc[j].addr = ChanOf(k)
                    /\ cyc[j].pin = A0 /\ cyc[j].val = valuesA0[k]
              /\ \E j \in 1..Len(cyc) :
                    /\ cyc[j].buf = "valuesAnalog" /\ cyc[j].addr = ChanOf(k)
                    /\ cyc[j].pin # A0 /\ cyc[j].val = valuesAnalog[k]
        /\ Deterministic => \A k \in 0..7 :
              /\ valuesA0[k] = Sample(sampler, A0, ChanOf(k), 0)
              /\ valuesAnalog[k] = Sample(sampler, A(8 + k), ChanOf(k), 0)

C6_Witness ==
    /\ pc = "47" /\ iter = 1 /\ sampler = "mock"
    /\ valuesA0[4] = 108 /\ valuesAnalog[7] = 211

(* ---------------------------------------------------------------- C7 --- *)
\* the 18 lines a report of the current buffers consists of
ReportLine(label, k, v) == label \o Dec(k) \o "] = " \o Dec(v)
ExpectedReport ==
    <<"Sensors 0-7 Readings:">>
    \o [j \in 1..8 |-> ReportLine("A0 Value[", j - 1, valuesA0[j - 1])]
    \o <<"Sensors 8-15 Readings:">>
    \o [j \in 1..8 |-> ReportLine("Analog Value[", j - 1, valuesAnalog[j - 1])]

\* the report of the buffers the "mock" source leaves, written out
MockReport ==
    << "Sensors 0-7 Readings:",
       "A0 Value[0] = 100", "A0 Value[1] = 101", "A0 Value[2] = 102",
       "A0 Value[3] = 103", "A0 Value[4] = 108", "A0 Value[5] = 109",
       "A0 Value[6] = 110", "A0 Value[7] = 111",
       "Sensors 8-15 Readings:",
       "Analog Value[0] = 200", "Analog Value[1] = 201",
       "Analog Value[2] = 202", "Analog Value[3] = 203",
       "Analog Value[4] = 208", "Analog Value[5] = 209",
       "Analog Value[6] = 210", "Analog Value[7] = 211" >>

\* C7: a report writes exactly 18 lines: "Sensors 0-7 Readings:", the 8
\* lines "A0 Value[i] = v" for i = 0..7 in ascending order, "Sensors 8-15
\* Readings:", the 8 lines "Analog Value[i] = v" for i = 0..7; v is the
\* decimal value of slot i of the buffer at that moment.
C7_ReportFormat ==
    /\ pc \in ScanBodyPcs => out = <<>>
    /\ pc \in ReportPcs => IsPrefix(out, ExpectedReport)
    /\ pc \in {"62", "19"} /\ iter >= 1 =>
          /\ Len(out) = 18
          /\ cur = ""
          /\ out = ExpectedReport
          /\ sampler = "mock" => out = MockReport

C7_Witness ==
    /\ pc = "62" /\ sampler = "pinwise" /\ Len(out) = 18
    /\ out[1] = "Sensors 0-7 Readings:"
    /\ out[9] = "A0 Value[7] = 11"
    /\ out[10] = "Sensors 8-15 Readings:"
    /\ out[18] = "Analog Value[7] = 251"

(* ---------------------------------------------------------------- C8 --- *)
InReport == pc \in ReportPcs
\* what the report has printed so far for slot k of the two buffers
PrintedA0(k) == out[k + 2]
PrintedAnalog(k) == out[k + 11]

\* while a report runs (and until loop() returns) every slot of both buffers
\* holds the one value sampled for it in the scan of this loop() invocation,
\* and every printed value is that sample
C8_Fresh ==
    pc \in AfterScanPcs =>
        /\ Len(cyc) = 16
        /\ \A k \in 0..7 :
              /\ \E j \in Writes("valuesA0", k) :
                    /\ Writes("valuesA0", k) = {j}
                    /\ cyc[j].val = valuesA0[k]
                    /\ Len(out) >= k + 2 =>
                          PrintedA0(k) = ReportLine("A0 Value[", k, cyc[j].val)
              /\ \E j \in Writes("valuesAnalog", k) :
                    /\ Writes("valuesAnalog", k) = {j}
                    /\ cyc[j].val = valuesAnalog[k]
                    /\ Len(out) >= k + 11 =>
                          PrintedAnalog(k) =
                              ReportLine("Analog Value[", k, cyc[j].val)

\* a report starts only from the end of the scan, and no step taken while a
\* report is in progress writes a buffer
C8_Step ==
    /\ (InReport' /\ ~InReport) => (pc = "34c" /\ pc' = "47" /\ Len(cyc) = 16)
    /\ InReport => (valuesA0' = valuesA0 /\ valuesAnalog' = valuesAnalog
                    /\ cyc' = cyc)

\* C8: a report starts only after the scan of the same loop() invocation has
\* written all 8 slots of both buffers, no buffer is written while a report
\* is in progress, and every value a report prints, the first report
\* included, was sampled in that scan.
C8_ReportAfterScan == [](C8_Fresh) /\ [][C8_Step]_vars

\* the first report is complete; the source changed level during the scan
C8_Witness ==
    /\ pc = "62" /\ iter = 1 /\ Len(out) = 18 /\ sampler = "noisy"
    /\ valuesA0[0] = 0 /\ valuesA0[3] = 259

(* ---------------------------------------------------------------- C9 --- *)
\* the order of the phases of loop(): scan, report, idle pause
C9_Step ==
    /\ pc' = "21i" => pc = "19"
    /\ (pc' = "47" /\ pc # "47") =>
          pc = "34c" /\ Len(selLog) = 8 /\ Len(cyc) = 16 /\ out = <<>>
    /\ pc' = "62" => pc = "56c" /\ Len(out) = 18 /\ Len(cyc) = 16
    /\ pc' = "19" =>
          \/ pc = "16" /\ iter = 0
          \/ /\ pc = "62" /\ Len(out) = 18
             /\ events'[Len(events')] = <<"d", IdleMs>>
    /\ pc' # pc

\* C9: loop() repeats scan, report, idle pause in that order for ever: a
\* report starts only after a complete scan of 8 channels, a scan starts
\* only after the idle pause that follows the previous report (or after
\* setup), and reports keep being completed.
C9_PhaseOrder == [][C9_Step]_vars /\ []<>(pc = "62" /\ Len(out) = 18)

C9_Witness ==
    /\ pc = "19" /\ iter = 2 /\ Len(out) = 18
    /\ events[Len(events)] = <<"d", 500>>

(* --------------------------------------------------------------- C10 --- *)
\* C10: with a source whose value depends only on the pin read and the
\* address selected, the buffers after the second scan (and every later one)
\* equal the buffers after the first scan.
C10_ScanRepeatable ==
    (pc \in AfterScanPcs /\ Deterministic /\ iter >= 2) =>
        /\ valuesA0 = snapA0
        /\ valuesAnalog = snapAnalog

\* the second scan is over; it started with address 11 on the lines and the
\* buffers filled by the first
C10_Witness ==
    /\ pc = "47" /\ iter = 2 /\ sampler = "pinwise"
    /\ Address(pinLevel) = 11
    /\ snapA0[5] = 9 /\ valuesA0[5] = 9
    /\ snapAnalog[0] = 128 /\ valuesAnalog[0] = 128

(* --------------------------------------------------------------- C11 --- *)
\* C11: the sample stored in valuesAnalog[k] is read from analogPins[k],
\* which is A8..A15 for k = 0..7, and the sample stored in valuesA0[k] from
\* A0; the 8 pins of the table are pairwise distinct and none is A0; the
\* table is never modified.
C11_PinAssignment ==
    /\ DOMAIN analogPins = 0..7
    /\ <<analogPins[0], analogPins[1], analogPins[2], analogPins[3],
          analogPins[4], analogPins[5], analogPins[6], analogPins[7]>>
          = <<A(8), A(9), A(10), A(11), A(12), A(13), A(14), A(15)>>
    /\ \A k \in 0..7 : analogPins[k] # A0
    /\ \A k \in 0..7 : \A l \in 0..7 : k # l => analogPins[k] # analogPins[l]
    /\ \A j \in 1..Len(cyc) :
          /\ cyc[j].buf = "valuesA0" => cyc[j].pin = A0
          /\ cyc[j].buf = "valuesAnalog" =>
                /\ cyc[j].k \in 0..7
                /\ cyc[j].pin = analogPins[cyc[j].k]
                /\ cyc[j].pin = A(8 + cyc[j].k)

C11_Witness ==
    /\ pc = "47" /\ iter = 2 /\ Len(cyc) = 16
    /\ cyc[15].buf = "valuesA0" /\ cyc[15].pin = A0
    /\ cyc[16].buf = "valuesAnalog" /\ cyc[16].k = 7 /\ cyc[16].pin = A(15)
    /\ cyc[2].k = 0 /\ cyc[2].pin = A(8)

(* --------------------------------------------------------------- C12 --- *)
\* C12: the select lines are written one at a time, so addresses other than
\* the old and the new channel appear during a change, but select line 2
\* (pin C2) is never high: in every state, the intermediate states of a
\* select step and the change from channel 11 back to 0 included, the
\* address on the lines is one of 0,1,2,3,8,9,10,11.
C12_NoDeadAddress ==
    /\ pinLevel[C2] = 0
    /\ Address(pinLevel) \in Channels
    /\ Address(pinLevel) \notin (4..7) \cup (12..15)

\* in the middle of the change from channel 3 to channel 8 the lines carry
\* address 0, neither the old nor the new channel
C12_Witness ==
    /\ pc = "37" /\ i = 8 /\ selLog = <<0, 1, 2, 3>>
    /\ Address(pinLevel) = 0

(* --------------------------------------------------------------- C13 --- *)
\* a step of the report or the idle pause changes neither buffer nor any
\* select line
C13_Step ==
    pc \in AfterScanPcs =>
        /\ valuesA0' = valuesA0
        /\ valuesAnalog' = valuesAnalog
        /\ pinLevel' = pinLevel

\* from the end of a scan up to the first select-line write of the next one
C13_BetweenScans ==
    \/ pc \in AfterScanPcs
    \/ pc \in {"19", "21i"} /\ iter >= 1 /\ Len(out) = 18
    \/ pc \in {"21c", "22"} /\ i = 0 /\ iter >= 2

\* C13: the report and the idle pause leave both buffers and the four select
\* lines unchanged; the lines carry address 11 from the end of each scan
\* until the first select-line write of the next scan.
C13_ReportFrame ==
    /\ [](C13_BetweenScans => Address(pinLevel) = 11)
    /\ [][C13_Step]_vars

\* the next scan is about to write its first select line
C13_Witness ==
    /\ pc = "22" /\ i = 0 /\ iter = 2 /\ selLog = <<>>
    /\ Address(pinLevel) = 11
    /\ valuesA0[7] = 111

(* --------------------------------------------------------------- C14 --- *)
\* the storage index of the channel held by the loop variable
IndexOf(c) == IF c <= 3 THEN c ELSE c - 4
OthersKept(old, new, k) == \A l \in 0..7 : l # k => new[l] = old[l]

\* the step that samples the reference input writes slot IndexOf(i) of
\* valuesA0 only and is followed at once by the step that samples the channel
\* input, which writes slot IndexOf(i) of valuesAnalog only; no other step
\* writes a buffer
C14_Step ==
    /\ pc \in {"28", "41"} =>
          /\ pc' \in {"29", "42"}
          /\ OthersKept(valuesA0, valuesA0', IndexOf(i))
          /\ valuesA0'[IndexOf(i)] = cyc'[Len(cyc')].val
          /\ valuesAnalog' = valuesAnalog
          /\ pinLevel' = pinLevel /\ i' = i
    /\ pc \in {"29", "42"} =>
          /\ OthersKept(valuesAnalog, valuesAnalog', IndexOf(i))
          /\ valuesAnalog'[IndexOf(i)] = cyc'[Len(cyc')].val
          /\ valuesA0' = valuesA0
          /\ pinLevel' = pinLevel /\ i' = i
    /\ pc \notin SamplePcs =>
          valuesA0' = valuesA0 /\ valuesAnalog' = valuesAnalog /\ cyc' \in {cyc, <<>>}

\* the buffer writes come in pairs: valuesA0[k], then valuesAnalog[k] with the
\* same k and the same address on the lines, the two reads being consecutive
\* events
C14_Pairs ==
    /\ \A j \in 1..Len(cyc) :
          IF j % 2 = 1
          THEN /\ cyc[j].buf = "valuesA0"
               /\ (j = Len(cyc) => pc \in {"29", "42"})
          ELSE /\ cyc[j].buf = "valuesAnalog"
               /\ cyc[j].k = cyc[j - 1].k
               /\ cyc[j].at = cyc[j - 1].at
               /\ cyc[j].addr = cyc[j - 1].addr
    /\ pc \in StepDonePcs =>
          /\ Len(events) = 7
          /\ events[6][1] = "r" /\ events[7][1] = "r"

\* C14: in one channel's step the reference value is sampled and stored
\* before the channel value, both at the same storage index, with no
\* select-line write and no write to another index in between; a store to
\* index k leaves the other 7 slots of each buffer unchanged.
C14_PairedStores == [](C14_Pairs) /\ [][C14_Step]_vars

\* second scan, channel 9: slot 5 of valuesA0 is already refreshed, slot 5 of
\* valuesAnalog is about to be; the noisy source changed level since the
\* first scan, so the stores really change the slots
C14_Witness ==
    /\ pc = "42" /\ i = 9 /\ iter = 2 /\ sampler = "noisy"
    /\ Len(cyc) = 11 /\ cyc[11].buf = "valuesA0" /\ cyc[11].k = 5
    /\ valuesA0[5] = 265 /\ valuesAnalog[5] = 217 /\ drift = 1
====
